---- MODULE Spec2Model ----
(***************************************************************************)
(* Expense approval workflow of the expense-management backend.           *)
(*                                                                         *)
(* The model follows backend/routes/ocr.js (the approvals router and the   *)
(* expenses router), backend/middleware/auth.js, backend/utils/currency.js *)
(* and the ApprovalRule / Expense / Company schemas.                       *)
(*                                                                         *)
(* Amounts are counted in hundredths of a currency unit, so that the       *)
(* two-decimal rounding of convertCurrency is integer rounding.            *)
(* Dates are abstracted to "set" (Now) or "not set" (Null).                *)
(***************************************************************************)
EXTENDS Integers, Sequences, FiniteSets, TLC

VARIABLES
    rules,      \* the ApprovalRule collection of the company, in natural order
    expense,    \* the stored Expense document, or NoExpense
    response,   \* the HTTP response of the last request: [op, code, message]
    inflight,   \* the decision requests between their findById and their save
    accounts    \* the User and Company collections: [users, companies]

vars == <<rules, expense, response, inflight, accounts>>

----------------------------------------------------------------------------
(* Bounds of the model *)

MaxApprovers == 2
MaxAmount == 2
MaxHistory == 3
MaxOverrides == 1
MaxRequests == 2

----------------------------------------------------------------------------
(* Values *)

Null == "null"
Undefined == "undefined"
Now == "now"

NoExpense == [status |-> "none"]

(* a || b on strings *)
OrElse(a, b) ==
    IF a \in {Null, Undefined, ""} THEN b ELSE a

(* percentageRequired || dflt on numbers: 0 is falsy *)
NumOrElse(n, dflt) ==
    IF n = 0 THEN dflt ELSE n

----------------------------------------------------------------------------
(* Users of the company.  The User schema is used through role, manager    *)
(* (a reference) and isManagerApprover.                                    *)

users ==
    [ admin |-> [role |-> "admin",    manager |-> Null, isManagerApprover |-> FALSE],
      m1    |-> [role |-> "manager",  manager |-> "m3", isManagerApprover |-> TRUE],
      m2    |-> [role |-> "manager",  manager |-> Null, isManagerApprover |-> TRUE],
      m3    |-> [role |-> "manager",  manager |-> Null, isManagerApprover |-> FALSE],
      emp   |-> [role |-> "employee", manager |-> "m1", isManagerApprover |-> FALSE] ]

Users == DOMAIN users

(* canApprove middleware: admin, or manager flagged as approver *)
canApprove(u) ==
    \/ users[u].role = "admin"
    \/ users[u].role = "manager" /\ users[u].isManagerApprover

(* Users a rule can name as approvers and who can pass canApprove. *)
ApproverPool == {u \in Users : canApprove(u)}

----------------------------------------------------------------------------
(* Company *)

CompanyCurrency == "USD"
ForeignCurrency == "EUR"
Currencies == {CompanyCurrency, ForeignCurrency}

(* company.settings.maxExpenseAmount, in hundredths *)
maxExpenseAmount == MaxAmount

(* The rate the exchange-rate API answers for ForeignCurrency -> CompanyCurrency,
   as a fraction <<numerator, denominator>>. *)
ApiRate == <<3, 2>>
UnitRate == <<1, 1>>

(* Outcomes of the rate lookup: a rate, or a failure (API down / rate missing). *)
RateOutcomes == {"ok", "fail"}

(* Math.round(x): round half up, for x = n / d with n >= 0, d > 0 *)
MathRound(n, d) ==
    (2 * n + d) \div (2 * d)

(* convertCurrency: identity when the currencies agree, otherwise
   Math.round(amount * rate * 100) / 100, i.e. rounding to hundredths. *)
convertCurrency(amount, fromCurrency, toCurrency) ==
    IF fromCurrency = toCurrency
    THEN [convertedAmount |-> amount, exchangeRate |-> UnitRate]
    ELSE [convertedAmount |-> MathRound(amount * ApiRate[1], ApiRate[2]),
          exchangeRate |-> ApiRate]

----------------------------------------------------------------------------
(* Sequences *)

Range(s) == {s[i] : i \in DOMAIN s}

Last(s) == s[Len(s)]

(* insertion of one approver into a list sorted by step, after its equals *)
RECURSIVE InsertByStep(_, _)
InsertByStep(a, s) ==
    IF s = <<>> THEN <<a>>
    ELSE IF a.step < Head(s).step THEN <<a>> \o s
         ELSE <<Head(s)>> \o InsertByStep(a, Tail(s))

(* approvers.sort((a, b) => a.step - b.step): a stable sort by step *)
RECURSIVE SortByStep(_)
SortByStep(s) ==
    IF s = <<>> THEN <<>>
    ELSE InsertByStep(s[Len(s)], SortByStep(SubSeq(s, 1, Len(s) - 1)))

----------------------------------------------------------------------------
(* Approval rules (ApprovalRule schema) *)

ApprovalTypes == {"sequential", "parallel", "percentage", "specific_approver", "hybrid"}

(* percentageRequired values tried: the schema's bounds 0 and 100 and a middle value *)
PercentValues == {0, 50, 100}

(* conditions.amountThreshold of the configured rule: the largest amount
   matches it, every smaller amount matches no rule *)
ThresholdValues == {MaxAmount}

(* The order in which the users of a rule are entered; StepPatterns gives
   the two orders of their steps. *)
EntryOrder == <<"m1", "m2", "admin">>

EntryPosition(u) == CHOOSE i \in DOMAIN EntryOrder : EntryOrder[i] = u

(* Lists of distinct users a rule names, in the order they were entered. *)
UserLists ==
    {s \in UNION {[1..n -> ApproverPool] : n \in 0..MaxApprovers} :
        \A i, j \in DOMAIN s : i < j => EntryPosition(s[i]) < EntryPosition(s[j])}

(* The steps entered for a list: in entry order, or reversed. *)
StepPatterns == {"ascending", "descending"}

ApproverEntries(us, pattern, required) ==
    [i \in 1..Len(us) |->
        [user |-> us[i],
         step |-> IF pattern = "ascending" THEN i ELSE Len(us) + 1 - i,
         isRequired |-> required[i]]]

AllRequired(us) == [i \in 1..Len(us) |-> TRUE]

(* the company of the expenses, and another company of the same database *)
OwnCompany == "company"
OtherCompany == "other"

MakeRule(type, approvers, pct, specific, threshold) ==
    [company |-> OwnCompany,
     isActive |-> TRUE,
     priority |-> 0,
     hasThreshold |-> TRUE,
     amountThreshold |-> threshold,
     approvers |-> approvers,
     approvalType |-> type,
     percentageRequired |-> pct,
     specificApproverCanApprove |-> specific]

(* The rules a company is configured with.  Settings a type does not read
   keep their schema default (isRequired true, percentageRequired 100,
   no specificApproverCanApprove). *)
RuleCandidates ==
    UNION {
      {MakeRule("sequential", ApproverEntries(us, p, AllRequired(us)), 100, Null, t) :
          us \in UserLists, p \in StepPatterns, t \in ThresholdValues},
      UNION {{MakeRule("parallel", ApproverEntries(us, p, req), 100, Null, t) :
          req \in [1..Len(us) -> BOOLEAN], p \in StepPatterns, t \in ThresholdValues} :
          us \in UserLists},
      {MakeRule("percentage", ApproverEntries(x[1], x[2], AllRequired(x[1])), x[3], Null, x[4]) :
          x \in UserLists \X StepPatterns \X PercentValues \X ThresholdValues},
      {MakeRule("specific_approver", ApproverEntries(x[1], x[2], AllRequired(x[1])), 100, x[3], x[4]) :
          x \in UserLists \X StepPatterns \X (ApproverPool \cup {Null}) \X ThresholdValues},
      {MakeRule("hybrid", ApproverEntries(x[1], x[2], AllRequired(x[1])), x[3], x[4], x[5]) :
          x \in UserLists \X StepPatterns \X PercentValues \X (ApproverPool \cup {Null})
                \X ThresholdValues}
    }

RuleSets == {<<>>} \cup {<<r>> : r \in RuleCandidates}

(* Rule collections for the choice among several rules: up to MaxRules
   sequential rules that differ in priority, threshold, isActive and company.
   The rule in position k names k approvers, so that the rule in use shows
   in the workflow of the expense. *)
MaxRules == 2

Priorities == {0, 1}

(* <<hasThreshold, amountThreshold>> *)
ThresholdOptions == {<<FALSE, 0>>} \cup {<<TRUE, t>> : t \in 1..MaxAmount}

(* <<company, isActive>> *)
RuleStatuses == {<<OwnCompany, TRUE>>, <<OwnCompany, FALSE>>, <<OtherCompany, TRUE>>}

RuleSettings == Priorities \X ThresholdOptions \X RuleStatuses

ApproversAt(k) ==
    [i \in 1..k |-> EntryOrder[((k + i - 2) % Len(EntryOrder)) + 1]]

RuleAt(k, setting) ==
    [MakeRule("sequential",
              ApproverEntries(ApproversAt(k), "ascending", AllRequired(ApproversAt(k))),
              100, Null, setting[2][2])
        EXCEPT !.priority = setting[1],
               !.hasThreshold = setting[2][1],
               !.company = setting[3][1],
               !.isActive = setting[3][2]]

(* the collections of at most maxRules rules *)
ResolutionRuleSets(maxRules) ==
    UNION {{[k \in 1..n |-> RuleAt(k, f[k])] : f \in [1..n -> RuleSettings]} :
              n \in 0..maxRules}

(* variant: rules of equal priority are not ordered by threshold *)
RuleBefore_IgnoresThreshold(a, b) ==
    a.priority > b.priority

(* sort({ priority: -1, 'conditions.amountThreshold': -1 }): a before b.
   A missing threshold sorts below every number. *)
RuleBefore(a, b) ==
    \/ a.priority > b.priority
    \/ /\ a.priority = b.priority
       /\ a.hasThreshold
       /\ (~b.hasThreshold \/ a.amountThreshold > b.amountThreshold)

(* the filter of ApprovalRule.find *)
RuleMatches(r, amount) ==
    /\ r.company = OwnCompany
    /\ r.isActive
    /\ (~r.hasThreshold \/ r.amountThreshold <= amount)

(* ApprovalRule.find(...).sort(...): the matching rules, best first; rules
   that compare equal keep their natural order. *)
RECURSIVE SortRules(_)
SortRules(s) ==
    IF s = <<>> THEN <<>>
    ELSE LET best == CHOOSE i \in DOMAIN s :
                        /\ \A j \in DOMAIN s : ~RuleBefore(s[j], s[i])
                        /\ \A j \in 1..(i - 1) : RuleBefore(s[i], s[j])
             rest == [k \in 1..(Len(s) - 1) |-> IF k < best THEN s[k] ELSE s[k + 1]]
         IN <<s[best]>> \o SortRules(rest)

FindRules(rs, amount) ==
    LET Matches(r) == RuleMatches(r, amount)
    IN SortRules(SelectSeq(rs, Matches))

(* User.findById(id): the document as stored; manager is left a reference. *)
findUserById(u) == users[u]

(* employee.manager.isManagerApprover read on an unpopulated reference: an
   ObjectId has no such property, so the value is undefined (falsy). *)
ReferenceProperty(ref, name) == FALSE

(* the default workflow when no rule matches *)
DefaultApprovers(employeeId) ==
    LET employee == findUserById(employeeId)
    IN IF employee.manager # Null
          /\ ReferenceProperty(employee.manager, "isManagerApprover")
       THEN <<[user |-> employee.manager, step |-> 1, isRequired |-> TRUE]>>
       ELSE <<>>

(* approvers and approvalType as both helpers resolve them *)
ResolveApprovers(rs, e) ==
    LET found == FindRules(rs, e.amountInCompanyCurrency)
    IN IF Len(found) > 0 THEN SortByStep(found[1].approvers)
       ELSE DefaultApprovers(e.employee)

ResolveType(rs, e) ==
    LET found == FindRules(rs, e.amountInCompanyCurrency)
    IN IF Len(found) > 0 THEN found[1].approvalType ELSE "sequential"

----------------------------------------------------------------------------
(* Workflow helpers of the routers *)

(* variant: an empty approver list leaves the expense pending *)
determineApprovalWorkflow_NoAutoApprove(rs, e) ==
    LET approvers == ResolveApprovers(rs, e)
        reset == [e EXCEPT !.totalApprovers = Len(approvers),
                           !.approvalStep = 0,
                           !.approvedBy = <<>>,
                           !.rejectedBy = <<>>,
                           !.approvalHistory = <<>>]
    IN IF Len(approvers) > 0
       THEN [reset EXCEPT !.currentApprover = approvers[1].user,
                          !.approvalStep = 1]
       ELSE reset

(* variant: the decisions recorded before are kept *)
determineApprovalWorkflow_KeepsDecisions(rs, e) ==
    LET approvers == ResolveApprovers(rs, e)
        reset == [e EXCEPT !.totalApprovers = Len(approvers),
                           !.approvalStep = 0]
    IN IF Len(approvers) > 0
       THEN [reset EXCEPT !.currentApprover = approvers[1].user,
                          !.approvalStep = 1]
       ELSE [reset EXCEPT !.status = "approved",
                          !.finalApprovalDate = Now]

(* async function determineApprovalWorkflow(expense) *)
determineApprovalWorkflow(rs, e) ==
    LET approvers == ResolveApprovers(rs, e)
        reset == [e EXCEPT !.totalApprovers = Len(approvers),
                           !.approvalStep = 0,
                           !.approvedBy = <<>>,
                           !.rejectedBy = <<>>,
                           !.approvalHistory = <<>>]
    IN IF Len(approvers) > 0
       THEN [reset EXCEPT !.currentApprover = approvers[1].user,
                          !.approvalStep = 1]
       ELSE [reset EXCEPT !.status = "approved",
                          !.finalApprovalDate = Now]

(* approvedBy.length / totalApprovers * 100 >= required.  A division by
   totalApprovers = 0 gives Infinity (or NaN for 0 / 0). *)
PercentageReached(e, required) ==
    IF e.totalApprovers = 0
    THEN Len(e.approvedBy) > 0
    ELSE Len(e.approvedBy) * 100 >= required * e.totalApprovers

(* variant: the specific approver counts only once every approver approved *)
HasSpecificApproval_WhenAllApproved(e, specific) ==
    /\ \E i \in DOMAIN e.approvedBy : e.approvedBy[i] = specific
    /\ Len(e.approvedBy) >= e.totalApprovers

(* approvedBy.some(id => id === specific) *)
HasSpecificApproval(e, specific) ==
    \E i \in DOMAIN e.approvedBy : e.approvedBy[i] = specific

(* variant: every approver is treated as required *)
RequiredApproved_IgnoresIsRequired(e, approvers) ==
    LET IsListed(id) == \E i \in DOMAIN approvers : approvers[i].user = id
    IN Len(SelectSeq(e.approvedBy, IsListed)) >= Len(approvers)

(* approvedRequiredCount >= requiredApprovers.length: the entries of
   approvedBy that name a required approver, against the required approvers *)
RequiredApproved(e, approvers) ==
    LET IsRequired(a) == a.isRequired
        requiredApprovers == SelectSeq(approvers, IsRequired)
        IsRequiredUser(id) ==
            \E i \in DOMAIN requiredApprovers : requiredApprovers[i].user = id
        approvedRequiredCount == Len(SelectSeq(e.approvedBy, IsRequiredUser))
    IN approvedRequiredCount >= Len(requiredApprovers)

(* case 'sequential': the last step has been approved *)
SequentialDone(e, approvers) ==
    e.approvalStep >= Len(approvers)

(* variant: the approver is looked up before the step is incremented *)
AdvanceSequential_StaleIndex(e, approvers) ==
    [e EXCEPT !.approvalStep = e.approvalStep + 1,
              !.currentApprover = approvers[e.approvalStep].user]

(* case 'sequential': move to the next approver (approvers is 0-based in the
   source, 1-based here) *)
AdvanceSequential(e, approvers) ==
    [e EXCEPT !.approvalStep = e.approvalStep + 1,
              !.currentApprover = approvers[e.approvalStep + 1].user]

(* the approvers who are in neither approvedBy nor rejectedBy *)
RemainingApprovers(e, approvers) ==
    LET Undecided(a) == /\ \A i \in DOMAIN e.approvedBy : e.approvedBy[i] # a.user
                        /\ \A i \in DOMAIN e.rejectedBy : e.rejectedBy[i] # a.user
    IN SelectSeq(approvers, Undecided)

(* variant: the final date is not written *)
MarkApproved_NoFinalDate(e) ==
    [e EXCEPT !.status = "approved",
              !.currentApprover = Null]

(* if (isApproved) { ... }, and the approving branch of the exhaustion check *)
MarkApproved(e) ==
    [e EXCEPT !.status = "approved",
              !.finalApprovalDate = Now,
              !.currentApprover = Null]

(* the rejecting branch of the exhaustion check *)
MarkInsufficient(e) ==
    [e EXCEPT !.status = "rejected",
              !.rejectionReason = "Insufficient approvals",
              !.finalApprovalDate = Now,
              !.currentApprover = Null]

(* processApprovalWorkflow, run after the approver was pushed to approvedBy *)
processApprovalWorkflow(rs, e) ==
    LET found == FindRules(rs, e.amountInCompanyCurrency)
        hasRule == Len(found) > 0
        approvers == ResolveApprovers(rs, e)
        approvalType == ResolveType(rs, e)
        settingPercentage == IF hasRule THEN found[1].percentageRequired ELSE 0
        specificApprover == IF hasRule THEN found[1].specificApproverCanApprove ELSE Null
        \* the switch on approvalType
        isApproved ==
            CASE approvalType = "sequential" -> SequentialDone(e, approvers)
              [] approvalType = "parallel" -> RequiredApproved(e, approvers)
              [] approvalType = "percentage" ->
                    PercentageReached(e, NumOrElse(settingPercentage, 100))
              [] approvalType = "specific_approver" -> HasSpecificApproval(e, specificApprover)
              [] approvalType = "hybrid" ->
                    \/ PercentageReached(e, NumOrElse(settingPercentage, 60))
                    \/ HasSpecificApproval(e, specificApprover)
              [] OTHER -> RequiredApproved(e, approvers)
        e1 == IF approvalType = "sequential" /\ ~SequentialDone(e, approvers)
              THEN AdvanceSequential(e, approvers)
              ELSE e
        remainingApprovers == RemainingApprovers(e1, approvers)
    IN IF isApproved
       THEN MarkApproved(e1)
       ELSE IF approvalType = "sequential" /\ e1.approvalStep <= Len(approvers)
       THEN e1
       ELSE IF Len(remainingApprovers) > 0
       THEN [e1 EXCEPT !.currentApprover = remainingApprovers[1].user]
       ELSE IF approvalType \in {"percentage", "hybrid"}
       THEN IF PercentageReached(e1, NumOrElse(settingPercentage, 100))
            THEN MarkApproved(e1)
            ELSE MarkInsufficient(e1)
       ELSE e1

----------------------------------------------------------------------------
(* Requests *)

Amounts == 1..MaxAmount

Comments == {"", "late"}

(* the body's action of an override request is not validated *)
OverrideActions == {"approved", "rejected", "hold"}

(* approvalHistory entries: the "[ADMIN OVERRIDE] " prefix that the override
   route puts before the comment is kept as the flag override *)

Respond(op, code, message) ==
    response' = [op |-> op, code |-> code, message |-> message]

(* Expense.create(expenseData): the schema defaults fill the workflow fields *)
NewExpense(u, amount, currency, conversion) ==
    [employee |-> u,
     amount |-> amount,
     currency |-> currency,
     amountInCompanyCurrency |-> conversion.convertedAmount,
     exchangeRate |-> conversion.exchangeRate,
     status |-> "pending",
     approvalHistory |-> <<>>,
     currentApprover |-> Null,
     approvalStep |-> 0,
     totalApprovers |-> 0,
     approvedBy |-> <<>>,
     rejectedBy |-> <<>>,
     finalApprovalDate |-> Null,
     rejectionReason |-> Undefined]

(* POST /api/expenses *)
CreateExpense(u, amount, currency, rate) ==
    /\ expense = NoExpense
    /\ UNCHANGED <<rules, inflight, accounts>>
    /\ IF currency # CompanyCurrency /\ rate = "fail"
       THEN /\ Respond("create", 500, "Server error")
            /\ UNCHANGED expense
       ELSE LET conversion == convertCurrency(amount, currency, CompanyCurrency)
            IN IF conversion.convertedAmount > maxExpenseAmount
               THEN /\ Respond("create", 400, "Expense amount exceeds company limit")
                    /\ UNCHANGED expense
               ELSE /\ expense' = determineApprovalWorkflow(rules,
                                      NewExpense(u, amount, currency, conversion))
                    /\ Respond("create", 201, "success")

(* variant: when no rate is obtained the amount is stored at the rate 1 *)
UpdateExpense_DefaultRate(u, amount, currency, rate) ==
    /\ UNCHANGED <<rules, inflight, accounts>>
    /\ IF expense = NoExpense
       THEN Respond("update", 404, "Expense not found") /\ UNCHANGED expense
       ELSE IF users[u].role = "employee" /\ expense.employee # u
       THEN Respond("update", 403, "Access denied") /\ UNCHANGED expense
       ELSE IF expense.status # "pending"
       THEN Respond("update", 400, "Cannot update expense that is not pending")
            /\ UNCHANGED expense
       ELSE LET conversion ==
                    IF currency # CompanyCurrency /\ rate = "fail"
                    THEN [convertedAmount |-> amount, exchangeRate |-> UnitRate]
                    ELSE convertCurrency(amount, currency, CompanyCurrency)
                edited == [expense EXCEPT
                              !.amount = amount,
                              !.currency = currency,
                              !.amountInCompanyCurrency = conversion.convertedAmount,
                              !.exchangeRate = conversion.exchangeRate]
            IN /\ expense' = determineApprovalWorkflow(rules, edited)
               /\ Respond("update", 200, "success")

(* PUT /api/expenses/:id *)
UpdateExpense(u, amount, currency, rate) ==
    /\ UNCHANGED <<rules, inflight, accounts>>
    /\ IF expense = NoExpense
       THEN Respond("update", 404, "Expense not found") /\ UNCHANGED expense
       ELSE IF users[u].role = "employee" /\ expense.employee # u
       THEN Respond("update", 403, "Access denied") /\ UNCHANGED expense
       ELSE IF expense.status # "pending"
       THEN Respond("update", 400, "Cannot update expense that is not pending")
            /\ UNCHANGED expense
       ELSE IF currency # CompanyCurrency /\ rate = "fail"
       THEN Respond("update", 500, "Server error") /\ UNCHANGED expense
       ELSE LET conversion == convertCurrency(amount, currency, CompanyCurrency)
                edited == [expense EXCEPT
                              !.amount = amount,
                              !.currency = currency,
                              !.amountInCompanyCurrency = conversion.convertedAmount,
                              !.exchangeRate = conversion.exchangeRate]
            IN /\ expense' = determineApprovalWorkflow(rules, edited)
               /\ Respond("update", 200, "success")

(* variant: an expense is deleted whatever its status *)
DeleteExpense_AnyStatus(u) ==
    /\ UNCHANGED <<rules, inflight, accounts>>
    /\ IF expense = NoExpense
       THEN Respond("delete", 404, "Expense not found") /\ UNCHANGED expense
       ELSE IF users[u].role = "employee" /\ expense.employee # u
       THEN Respond("delete", 403, "Access denied") /\ UNCHANGED expense
       ELSE /\ expense' = NoExpense
            /\ Respond("delete", 200, "success")

(* DELETE /api/expenses/:id *)
DeleteExpense(u) ==
    /\ UNCHANGED <<rules, inflight, accounts>>
    /\ IF expense = NoExpense
       THEN Respond("delete", 404, "Expense not found") /\ UNCHANGED expense
       ELSE IF users[u].role = "employee" /\ expense.employee # u
       THEN Respond("delete", 403, "Access denied") /\ UNCHANGED expense
       ELSE IF expense.status # "pending"
       THEN Respond("delete", 400, "Cannot delete expense that is not pending")
            /\ UNCHANGED expense
       ELSE /\ expense' = NoExpense
            /\ Respond("delete", 200, "success")

(* the log of one expense is followed up to MaxHistory entries *)
HistoryHasRoom ==
    IF expense = NoExpense THEN TRUE
    ELSE Len(expense.approvalHistory) < MaxHistory

IsOverrideEntry(h) ==
    h.override

(* overrides of one expense are followed up to MaxOverrides *)
OverrideHasRoom ==
    IF expense = NoExpense THEN TRUE
    ELSE Len(SelectSeq(expense.approvalHistory, IsOverrideEntry)) < MaxOverrides

(* variant: the comment is stored as the reason without a default *)
RecordRejection_NoDefaultReason(e, u, comment) ==
    [e EXCEPT !.rejectedBy = Append(@, u),
              !.status = "rejected",
              !.rejectionReason = comment,
              !.finalApprovalDate = Now]

(* the else branch of the decision handler: a rejection *)
RecordRejection(e, u, comment) ==
    [e EXCEPT !.rejectedBy = Append(@, u),
              !.status = "rejected",
              !.rejectionReason = OrElse(comment, "No reason provided"),
              !.finalApprovalDate = Now]

(* PUT /api/approvals/:id *)
ProcessApproval(u, action, comment) ==
    /\ HistoryHasRoom
    /\ UNCHANGED <<rules, inflight, accounts>>
    /\ IF ~canApprove(u)
       THEN Respond("decide", 403, "You do not have permission to approve expenses.")
            /\ UNCHANGED expense
       ELSE IF expense = NoExpense
       THEN Respond("decide", 404, "Expense not found") /\ UNCHANGED expense
       ELSE IF expense.currentApprover = Null
       THEN \* currentApprover.toString() throws; the catch answers 500
            Respond("decide", 500, "Server error") /\ UNCHANGED expense
       ELSE IF expense.currentApprover # u
       THEN Respond("decide", 403, "You are not the current approver for this expense")
            /\ UNCHANGED expense
       ELSE IF expense.status # "pending"
       THEN Respond("decide", 400, "Expense is no longer pending approval")
            /\ UNCHANGED expense
       ELSE LET logged == [expense EXCEPT !.approvalHistory =
                              Append(@, [approver |-> u,
                                         action |-> action,
                                         comment |-> OrElse(comment, ""),
                                         override |-> FALSE,
                                         step |-> expense.approvalStep])]
            IN /\ expense' =
                    IF action = "approved"
                    THEN processApprovalWorkflow(rules,
                            [logged EXCEPT !.approvedBy = Append(@, u)])
                    ELSE RecordRejection(logged, u, comment)
               /\ Respond("decide", 200, "success")

(* variant: the override leaves currentApprover as it was *)
OverrideApproval_KeepsApprover(u, action, comment) ==
    /\ OverrideHasRoom
    /\ UNCHANGED <<rules, inflight, accounts>>
    /\ IF users[u].role # "admin"
       THEN Respond("override", 403, "Only admin can override approvals")
            /\ UNCHANGED expense
       ELSE IF expense = NoExpense
       THEN Respond("override", 404, "Expense not found") /\ UNCHANGED expense
       ELSE LET logged == [expense EXCEPT !.approvalHistory =
                              Append(@, [approver |-> u,
                                         action |-> IF action = "approved"
                                                    THEN "approved" ELSE "rejected",
                                         comment |-> OrElse(comment, "No reason provided"),
                                         override |-> TRUE,
                                         step |-> expense.approvalStep + 1])]
                forced == [logged EXCEPT
                              !.status = IF action = "approved"
                                         THEN "approved" ELSE "rejected",
                              !.finalApprovalDate = Now]
            IN /\ expense' =
                    IF action = "rejected"
                    THEN [forced EXCEPT !.rejectionReason =
                             OrElse(comment, "Rejected by admin override")]
                    ELSE forced
               /\ Respond("override", 200, "success")

(* variant: managers may override as well *)
OverrideApproval_ManagersToo(u, action, comment) ==
    /\ OverrideHasRoom
    /\ UNCHANGED <<rules, inflight, accounts>>
    /\ IF users[u].role = "employee"
       THEN Respond("override", 403, "Only admin can override approvals")
            /\ UNCHANGED expense
       ELSE IF expense = NoExpense
       THEN Respond("override", 404, "Expense not found") /\ UNCHANGED expense
       ELSE LET logged == [expense EXCEPT !.approvalHistory =
                              Append(@, [approver |-> u,
                                         action |-> IF action = "approved"
                                                    THEN "approved" ELSE "rejected",
                                         comment |-> OrElse(comment, "No reason provided"),
                                         override |-> TRUE,
                                         step |-> expense.approvalStep + 1])]
                forced == [logged EXCEPT
                              !.status = IF action = "approved"
                                         THEN "approved" ELSE "rejected",
                              !.finalApprovalDate = Now,
                              !.currentApprover = Null]
            IN /\ expense' =
                    IF action = "rejected"
                    THEN [forced EXCEPT !.rejectionReason =
                             OrElse(comment, "Rejected by admin override")]
                    ELSE forced
               /\ Respond("override", 200, "success")

(* PUT /api/approvals/:id/override *)
OverrideApproval(u, action, comment) ==
    /\ OverrideHasRoom
    /\ UNCHANGED <<rules, inflight, accounts>>
    /\ IF users[u].role # "admin"
       THEN Respond("override", 403, "Only admin can override approvals")
            /\ UNCHANGED expense
       ELSE IF expense = NoExpense
       THEN Respond("override", 404, "Expense not found") /\ UNCHANGED expense
       ELSE LET logged == [expense EXCEPT !.approvalHistory =
                              Append(@, [approver |-> u,
                                         action |-> IF action = "approved"
                                                    THEN "approved" ELSE "rejected",
                                         comment |-> OrElse(comment, "No reason provided"),
                                         override |-> TRUE,
                                         step |-> expense.approvalStep + 1])]
                forced == [logged EXCEPT
                              !.status = IF action = "approved"
                                         THEN "approved" ELSE "rejected",
                              !.finalApprovalDate = Now,
                              !.currentApprover = Null]
            IN /\ expense' =
                    IF action = "rejected"
                    THEN [forced EXCEPT !.rejectionReason =
                             OrElse(comment, "Rejected by admin override")]
                    ELSE forced
               /\ Respond("override", 200, "success")

----------------------------------------------------------------------------
(* Decision requests that overlap.  A handler runs without interruption
   between two awaits: it loads the expense (findById), checks and changes
   its own copy of the document, and later saves it. *)

Requests == 1..MaxRequests

Idle == [pc |-> "idle"]

(* the decision handler from the loaded document e to the document it is
   about to save: the answer it would give and its copy of the document *)
Decide(e, u, action, comment) ==
    IF ~canApprove(u)
    THEN [code |-> 403, message |-> "You do not have permission to approve expenses.",
          doc |-> e]
    ELSE IF e = NoExpense
    THEN [code |-> 404, message |-> "Expense not found", doc |-> e]
    ELSE IF e.currentApprover = Null
    THEN [code |-> 500, message |-> "Server error", doc |-> e]
    ELSE IF e.currentApprover # u
    THEN [code |-> 403, message |-> "You are not the current approver for this expense",
          doc |-> e]
    ELSE IF e.status # "pending"
    THEN [code |-> 400, message |-> "Expense is no longer pending approval", doc |-> e]
    ELSE LET logged == [e EXCEPT !.approvalHistory =
                           Append(@, [approver |-> u,
                                      action |-> action,
                                      comment |-> OrElse(comment, ""),
                                      override |-> FALSE,
                                      step |-> e.approvalStep])]
         IN [code |-> 200,
             message |-> "success",
             doc |-> IF action = "approved"
                     THEN processApprovalWorkflow(rules,
                             [logged EXCEPT !.approvedBy = Append(@, u)])
                     ELSE RecordRejection(logged, u, comment)]

(* the elements pushed to an array since the document was loaded *)
Pushed(loaded, changed) ==
    SubSeq(changed, Len(loaded) + 1, Len(changed))

(* expense.save() of a loaded document: Mongoose sends the changes made to
   the copy, a $push of the elements pushed to each array and a $set of each
   path whose value was changed, and the store applies them to the document
   as it is now. *)
SaveModified(stored, loaded, doc) ==
    LET Set(name) == IF doc[name] # loaded[name] THEN doc[name] ELSE stored[name]
    IN [stored EXCEPT
           !.approvalHistory = @ \o Pushed(loaded.approvalHistory, doc.approvalHistory),
           !.approvedBy = @ \o Pushed(loaded.approvedBy, doc.approvedBy),
           !.rejectedBy = @ \o Pushed(loaded.rejectedBy, doc.rejectedBy),
           !.status = Set("status"),
           !.rejectionReason = Set("rejectionReason"),
           !.finalApprovalDate = Set("finalApprovalDate"),
           !.currentApprover = Set("currentApprover"),
           !.approvalStep = Set("approvalStep")]

(* PUT /api/approvals/:id up to its save: request r loads the expense and
   decides on its copy; a refused request is answered at once *)
DecideLoad(r, u, action, comment) ==
    /\ inflight[r] = Idle
    /\ UNCHANGED <<rules, expense, accounts>>
    /\ LET out == Decide(expense, u, action, comment)
       IN IF out.code = 200
          THEN /\ inflight' = [inflight EXCEPT ![r] =
                                  [pc |-> "loaded", read |-> expense, doc |-> out.doc]]
               /\ UNCHANGED response
          ELSE /\ inflight' = [inflight EXCEPT ![r] = [pc |-> "refused"]]
               /\ Respond("decide", out.code, out.message)

(* PUT /api/approvals/:id from its save on *)
DecideSave(r) ==
    /\ inflight[r].pc = "loaded"
    /\ expense # NoExpense
    /\ UNCHANGED <<rules, accounts>>
    /\ expense' = SaveModified(expense, inflight[r].read, inflight[r].doc)
    /\ inflight' = [inflight EXCEPT ![r] =
                       [pc |-> "saved", read |-> inflight[r].read, doc |-> inflight[r].doc]]
    /\ Respond("decide", 200, "success")

----------------------------------------------------------------------------
(* Decision requests during which a lookup of processApprovalWorkflow
   (ApprovalRule.find, User.findById) throws. *)

LookupOutcomes == {"ok", "throws"}

(* processApprovalWorkflow with the outcome of its lookups: they come before
   every assignment to the expense, and the catch only logs the error, so a
   throwing lookup returns with the expense as it was passed in *)
processApprovalWorkflowLookup(rs, e, lookup) ==
    IF lookup = "throws" THEN e ELSE processApprovalWorkflow(rs, e)

(* PUT /api/approvals/:id with the outcome of the workflow's lookups *)
ProcessApprovalLookup(u, action, comment, lookup) ==
    /\ HistoryHasRoom
    /\ UNCHANGED <<rules, inflight, accounts>>
    /\ IF ~canApprove(u)
       THEN Respond("decide", 403, "You do not have permission to approve expenses.")
            /\ UNCHANGED expense
       ELSE IF expense = NoExpense
       THEN Respond("decide", 404, "Expense not found") /\ UNCHANGED expense
       ELSE IF expense.currentApprover = Null
       THEN Respond("decide", 500, "Server error") /\ UNCHANGED expense
       ELSE IF expense.currentApprover # u
       THEN Respond("decide", 403, "You are not the current approver for this expense")
            /\ UNCHANGED expense
       ELSE IF expense.status # "pending"
       THEN Respond("decide", 400, "Expense is no longer pending approval")
            /\ UNCHANGED expense
       ELSE LET logged == [expense EXCEPT !.approvalHistory =
                              Append(@, [approver |-> u,
                                         action |-> action,
                                         comment |-> OrElse(comment, ""),
                                         override |-> FALSE,
                                         step |-> expense.approvalStep])]
            IN /\ expense' =
                    IF action = "approved"
                    THEN processApprovalWorkflowLookup(rules,
                            [logged EXCEPT !.approvedBy = Append(@, u)], lookup)
                    ELSE RecordRejection(logged, u, comment)
               /\ Respond("decide", 200, "success")

(* determineApprovalWorkflow when its lookups may throw: the lookups come
   before every assignment, and the catch only logs *)
determineApprovalWorkflowLookup(rs, e, lookup) ==
    IF lookup = "throws" THEN e ELSE determineApprovalWorkflow(rs, e)

(* POST /api/expenses when the lookups of the initializer may throw: the
   expense is stored by Expense.create before the initializer runs *)
CreateExpenseLookup(u, amount, lookup) ==
    /\ expense = NoExpense
    /\ UNCHANGED <<rules, inflight, accounts>>
    /\ LET conversion == convertCurrency(amount, CompanyCurrency, CompanyCurrency)
       IN IF conversion.convertedAmount > maxExpenseAmount
          THEN /\ Respond("create", 400, "Expense amount exceeds company limit")
               /\ UNCHANGED expense
          ELSE /\ expense' = determineApprovalWorkflowLookup(rules,
                                 NewExpense(u, amount, CompanyCurrency, conversion), lookup)
               /\ Respond("create", 201, "success")

----------------------------------------------------------------------------
(* The listing of the expenses that wait for a decision *)

(* Expense.find(query): status pending and, for a manager only, the caller
   as currentApprover; an admin's query has no currentApprover filter *)
PendingQuery(u, e) ==
    /\ e # NoExpense
    /\ e.status = "pending"
    /\ (users[u].role = "manager" => e.currentApprover = u)

(* GET /api/approvals/pending: the answer names the caller and the expenses
   returned (the first page holds the one expense of the model) *)
GetPendingApprovals(u) ==
    /\ UNCHANGED <<rules, expense, inflight, accounts>>
    /\ IF ~canApprove(u)
       THEN Respond("list", 403, "You do not have permission to approve expenses.")
       ELSE response' = [op |-> "list", code |-> 200, message |-> "success",
                         user |-> u,
                         expenses |-> IF PendingQuery(u, expense) THEN {expense} ELSE {}]

----------------------------------------------------------------------------
(* Registration *)

(* An empty database, and the database of the company of the users above *)
NoAccounts == [users |-> {}, companies |-> {}]

InstalledAccounts ==
    [ users |-> {[email |-> u, role |-> users[u].role, company |-> OwnCompany] : u \in Users},
      companies |-> {[name |-> OwnCompany, admin |-> "admin"]} ]

(* The addresses a registration is sent with: one of a user of the company,
   one nobody has *)
Emails == {"admin", "new"}

(* The validation Company.create runs before it stores a document:
   admin is a required path *)
CompanyValid(company) == company.admin # Null

(* POST /api/auth/register *)
Register(email) ==
    /\ UNCHANGED <<rules, expense, inflight>>
    /\ IF \E u \in accounts.users : u.email = email
       THEN /\ Respond("register", 400, "User already exists with this email")
            /\ UNCHANGED accounts
       ELSE IF Cardinality(accounts.users) # 0
       THEN /\ Respond("register", 400, "Registration is only available for the first user.")
            /\ UNCHANGED accounts
       ELSE LET company == [name |-> email, admin |-> Null]
            IN  IF ~CompanyValid(company)
                THEN /\ Respond("register", 500, "Server error during registration")
                     /\ UNCHANGED accounts
                ELSE /\ accounts' =
                          [ users |-> {[email |-> email, role |-> "admin",
                                        company |-> company.name]},
                            companies |-> {[company EXCEPT !.admin = email]} ]
                     /\ Respond("register", 201, "success")

----------------------------------------------------------------------------
(* Specification *)

Init ==
    /\ rules \in RuleSets
    /\ expense = NoExpense
    /\ response = [op |-> "none", code |-> 0, message |-> ""]
    /\ inflight = [r \in Requests |-> Idle]
    /\ accounts = InstalledAccounts

(* The requests of the main specification: expenses are submitted in the
   company currency; the comment of an approval is only logged, so approvals
   are sent without one. *)
Submitters == {"emp", "m1", "m3"}

DecisionRequests ==
    ({"approved"} \X {""}) \cup ({"rejected"} \X Comments)

OverrideRequests == {"approved", "rejected"} \X {""}

Next ==
    \/ \E u \in Submitters, a \in Amounts :
          CreateExpense(u, a, CompanyCurrency, "ok")
    \/ \E u \in Users, a \in Amounts :
          UpdateExpense(u, a, CompanyCurrency, "ok")
    \/ \E u \in Users : DeleteExpense(u)
    \/ \E u \in Users, req \in DecisionRequests :
          ProcessApproval(u, req[1], req[2])
    \/ \E u \in Users, req \in OverrideRequests :
          OverrideApproval(u, req[1], req[2])

Spec == Init /\ [][Next]_vars

(* Overlapping decision requests on one expense *)
NextRace ==
    \/ \E u \in Submitters, a \in Amounts :
          CreateExpense(u, a, CompanyCurrency, "ok")
    \/ \E r \in Requests, u \in Users, req \in DecisionRequests :
          DecideLoad(r, u, req[1], req[2])
    \/ \E r \in Requests : DecideSave(r)

SpecRace == Init /\ [][NextRace]_vars

(* Decisions whose workflow lookups may throw *)
NextLookup ==
    \/ \E u \in Submitters, a \in Amounts :
          CreateExpense(u, a, CompanyCurrency, "ok")
    \/ \E u \in Users : DeleteExpense(u)
    \/ \E u \in Users, req \in DecisionRequests, lookup \in LookupOutcomes :
          ProcessApprovalLookup(u, req[1], req[2], lookup)

SpecLookup == Init /\ [][NextLookup]_vars

(* The choice among several rules, by the initializer and by the decision
   processor *)
InitRules ==
    /\ rules \in ResolutionRuleSets(MaxRules)
    /\ expense = NoExpense
    /\ response = [op |-> "none", code |-> 0, message |-> ""]
    /\ inflight = [r \in Requests |-> Idle]
    /\ accounts = InstalledAccounts

NextRules ==
    \/ \E a \in Amounts : CreateExpense("emp", a, CompanyCurrency, "ok")
    \/ \E u \in ApproverPool : ProcessApproval(u, "approved", "")
    \/ DeleteExpense("emp")

SpecRules == InitRules /\ [][NextRules]_vars

(* Expenses in the company currency and in a foreign one, whose rate the
   exchange-rate API may fail to give *)
NextCurrency ==
    \/ \E a \in Amounts, c \in Currencies, rate \in RateOutcomes :
          CreateExpense("emp", a, c, rate)
    \/ \E u \in {"emp", "admin"}, a \in Amounts, c \in Currencies, rate \in RateOutcomes :
          UpdateExpense(u, a, c, rate)
    \/ \E u \in ApproverPool : ProcessApproval(u, "approved", "")
    \/ DeleteExpense("emp")

SpecCurrency == Init /\ [][NextCurrency]_vars

(* Decisions and the listing of pending approvals *)
NextListing ==
    \/ \E u \in Submitters, a \in Amounts :
          CreateExpense(u, a, CompanyCurrency, "ok")
    \/ \E u \in ApproverPool, req \in DecisionRequests :
          ProcessApproval(u, req[1], req[2])
    \/ \E u \in Users : GetPendingApprovals(u)

SpecListing == Init /\ [][NextListing]_vars

(* Registration requests, against an empty database and against the database
   of a company with users *)
InitRegister ==
    /\ rules \in RuleSets
    /\ expense = NoExpense
    /\ response = [op |-> "none", code |-> 0, message |-> ""]
    /\ inflight = [r \in Requests |-> Idle]
    /\ accounts \in {NoAccounts, InstalledAccounts}

NextRegister == \E email \in Emails : Register(email)

SpecRegister == InitRegister /\ [][NextRegister]_vars

(* Parallel rules whose approver list may name a user more than once (the
   schema of a rule does not ask for distinct approvers) *)
RepeatedLists == UNION {[1..n -> ApproverPool] : n \in 1..MaxApprovers}

RepeatedRuleSets ==
    UNION {{<<MakeRule("parallel", ApproverEntries(us, p, req), 100, Null, t)>> :
              req \in [1..Len(us) -> BOOLEAN], p \in StepPatterns, t \in ThresholdValues} :
           us \in RepeatedLists}

InitRepeated ==
    /\ rules \in RepeatedRuleSets
    /\ expense = NoExpense
    /\ response = [op |-> "none", code |-> 0, message |-> ""]
    /\ inflight = [r \in Requests |-> Idle]
    /\ accounts = InstalledAccounts

NextRepeated ==
    \/ \E u \in Submitters, a \in Amounts :
          CreateExpense(u, a, CompanyCurrency, "ok")
    \/ \E u \in ApproverPool, req \in DecisionRequests :
          ProcessApproval(u, req[1], req[2])

SpecRepeated == InitRepeated /\ [][NextRepeated]_vars

(* Overrides sent with any action value: the override route runs no
   validation of its body *)
NextOverride ==
    \/ \E u \in Submitters, a \in Amounts :
          CreateExpense(u, a, CompanyCurrency, "ok")
    \/ \E u \in ApproverPool, req \in DecisionRequests :
          ProcessApproval(u, req[1], req[2])
    \/ \E u \in {"admin", "m1"}, action \in OverrideActions, comment \in Comments :
          OverrideApproval(u, action, comment)

SpecOverride == Init /\ [][NextOverride]_vars

(* Creation and decisions when the lookups of the initializer and of the
   decision processor may throw *)
NextInitializerLookup ==
    \/ \E u \in Submitters, a \in Amounts, lookup \in LookupOutcomes :
          CreateExpenseLookup(u, a, lookup)
    \/ \E u \in ApproverPool, req \in DecisionRequests, lookup \in LookupOutcomes :
          ProcessApprovalLookup(u, req[1], req[2], lookup)

SpecInitializerLookup == Init /\ [][NextInitializerLookup]_vars

----------------------------------------------------------------------------
(* Vocabulary of the properties *)

Stored == expense # NoExpense

Terminal(e) == e.status \in {"approved", "rejected"}

(* the rule that applies to the stored expense, if any *)
MatchedRules == FindRules(rules, expense.amountInCompanyCurrency)

RuleTypeIs(t) ==
    /\ Stored
    /\ Len(MatchedRules) > 0
    /\ MatchedRules[1].approvalType = t

(* this step is a decision request answered 200 *)
DecisionAccepted ==
    /\ response'.op = "decide"
    /\ response'.code = 200

ApprovalAccepted ==
    /\ DecisionAccepted
    /\ Last(expense'.approvalHistory).action = "approved"

RejectionAccepted ==
    /\ DecisionAccepted
    /\ Last(expense'.approvalHistory).action = "rejected"

(* positions of the approvers of a sorted list who have not decided in e *)
UndecidedPositions(e, approvers) ==
    {i \in DOMAIN approvers :
        approvers[i].user \notin (Range(e.approvedBy) \cup Range(e.rejectedBy))}

SetMin(S) == CHOOSE x \in S : \A y \in S : x <= y

(* e is pending and waits for the first undecided approver of the list *)
WaitsForNextUndecided(e, approvers) ==
    /\ e.status = "pending"
    /\ UndecidedPositions(e, approvers) # {}
    /\ e.currentApprover = approvers[SetMin(UndecidedPositions(e, approvers))].user

----------------------------------------------------------------------------
(* C1: in every reachable state, finalApprovalDate is set if and only if
   the status of the expense is approved or rejected. *)
C1_FinalDateIffTerminal ==
    Stored => ((expense.finalApprovalDate # Null) <=> Terminal(expense))

(* an expense rejected by its second approver, with its final date *)
C1_Witness ==
    /\ Stored
    /\ expense.status = "rejected"
    /\ expense.finalApprovalDate = Now
    /\ Len(expense.approvedBy) = 1
    /\ Len(expense.rejectedBy) = 1

(* C2: approvedBy and rejectedBy are disjoint in every reachable state,
   under every approval type. *)
C2_ApprovedRejectedDisjoint ==
    Stored => Range(expense.approvedBy) \cap Range(expense.rejectedBy) = {}

(* C3: a decision that its sender has already made on the expense is
   refused with 400 (not pending) or 403 (not the current approver) and
   changes nothing, so no user is counted twice in approvedBy. *)
C3_ResubmissionRefused ==
    [][\A u \in Users, req \in DecisionRequests :
          ( /\ Stored
            /\ \/ req[1] = "approved" /\ u \in Range(expense.approvedBy)
               \/ req[1] = "rejected" /\ u \in Range(expense.rejectedBy)
            /\ ProcessApproval(u, req[1], req[2]) )
          => /\ response'.code \in {400, 403}
             /\ expense' = expense]_vars

(* C4: under a sequential rule with N approvers the k-th approval is made by
   the k-th approver of the sorted list; for k < N it leaves the expense
   pending at step k + 1 with the next approver, the N-th approves it and
   clears currentApprover; the history then holds the steps 1..k in order. *)
C4_SequentialOrder ==
    [][(ApprovalAccepted /\ RuleTypeIs("sequential")) =>
          LET approvers == ResolveApprovers(rules, expense)
              N == Len(approvers)
              k == Len(expense.approvedBy) + 1
              after == expense'
          IN /\ N >= 1
             /\ k <= N
             /\ Last(after.approvalHistory).approver = approvers[k].user
             /\ Len(after.approvalHistory) = k
             /\ Len(after.approvedBy) = k
             /\ \A i \in 1..k : /\ after.approvalHistory[i].step = i
                                /\ after.approvalHistory[i].action = "approved"
             /\ IF k < N
                THEN /\ after.status = "pending"
                     /\ after.approvalStep = k + 1
                     /\ after.currentApprover = approvers[k + 1].user
                ELSE /\ after.status = "approved"
                     /\ after.currentApprover = Null]_vars

(* a two-step sequential rule approved by both approvers in step order *)
C4_Witness ==
    /\ RuleTypeIs("sequential")
    /\ Len(ResolveApprovers(rules, expense)) = 2
    /\ expense.status = "approved"
    /\ response.op = "decide"
    /\ Len(expense.approvalHistory) = 2
    /\ expense.approvalHistory[1].step = 1
    /\ expense.approvalHistory[2].step = 2
    /\ expense.approvedBy[1] = ResolveApprovers(rules, expense)[1].user
    /\ expense.approvedBy[2] = ResolveApprovers(rules, expense)[2].user

(* C5: a rejection by the current approver of a pending expense ends the
   workflow in the same request under every approval type: the approver is
   appended to rejectedBy, the status is rejected, the reason is the comment
   or "No reason provided", the final date is set, no policy is evaluated,
   and the history holds one entry per decision made. *)
C5_RejectionIsFinal ==
    [][RejectionAccepted =>
          LET entry == Last(expense'.approvalHistory)
          IN /\ expense.status = "pending"
             /\ entry.approver = expense.currentApprover
             /\ expense'.rejectedBy = Append(expense.rejectedBy, entry.approver)
             /\ expense'.status = "rejected"
             /\ expense'.rejectionReason =
                   (IF entry.comment = "" THEN "No reason provided" ELSE entry.comment)
             /\ expense'.finalApprovalDate # Null
             /\ expense'.approvedBy = expense.approvedBy
             /\ expense'.currentApprover = expense.currentApprover
             /\ expense'.approvalStep = expense.approvalStep
             /\ expense'.totalApprovers = expense.totalApprovers
             /\ Len(expense'.approvalHistory) =
                   Len(expense'.approvedBy) + Len(expense'.rejectedBy)]_vars

(* a rejection without a comment after one approval *)
C5_Witness ==
    /\ Stored
    /\ response.op = "decide"
    /\ expense.status = "rejected"
    /\ expense.rejectionReason = "No reason provided"
    /\ Len(expense.approvedBy) = 1
    /\ Len(expense.approvalHistory) = 2

(* C6: under a percentage rule with percentageRequired in 0..100 an approval
   approves the expense if and only if approvedBy / totalApprovers * 100
   reaches percentageRequired; otherwise the expense stays pending and waits
   for the next undecided approver. *)
C6_PercentagePolicy ==
    [][(ApprovalAccepted /\ RuleTypeIs("percentage")) =>
          LET rule == MatchedRules[1]
              approvers == ResolveApprovers(rules, expense)
              after == expense'
              met == Len(after.approvedBy) * 100
                        >= rule.percentageRequired * after.totalApprovers
          IN /\ (after.status = "approved") <=> met
             /\ ~met => WaitsForNextUndecided(after, approvers)]_vars

(* C7: under a hybrid rule an approval approves the expense if and only if
   the percentage reaches percentageRequired or the rule's specific approver
   is in approvedBy, for every percentageRequired in 0..100. *)
C7_HybridPolicy ==
    [][(ApprovalAccepted /\ RuleTypeIs("hybrid")) =>
          LET rule == MatchedRules[1]
              after == expense'
              met == \/ Len(after.approvedBy) * 100
                           >= rule.percentageRequired * after.totalApprovers
                     \/ rule.specificApproverCanApprove \in Range(after.approvedBy)
          IN (after.status = "approved") <=> met]_vars

(* C8: under a specific_approver rule, the approval of the designated
   approver approves the expense in the same request and clears
   currentApprover, also when fewer than totalApprovers have approved. *)
C8_SpecificApproverApproves ==
    [][( /\ ApprovalAccepted
         /\ RuleTypeIs("specific_approver")
         /\ Last(expense'.approvalHistory).approver
               = MatchedRules[1].specificApproverCanApprove )
          => /\ expense'.status = "approved"
             /\ expense'.currentApprover = Null
             /\ expense'.finalApprovalDate # Null]_vars

(* the designated approver approved first of two approvers *)
C8_Witness ==
    /\ RuleTypeIs("specific_approver")
    /\ response.op = "decide"
    /\ expense.status = "approved"
    /\ expense.currentApprover = Null
    /\ expense.totalApprovers = 2
    /\ expense.approvedBy = <<MatchedRules[1].specificApproverCanApprove>>

(* C9: under a parallel rule an approval approves the expense if and only if
   afterwards every required approver of the rule is in approvedBy;
   otherwise the expense stays pending and waits for the first approver of
   the sorted list who is in neither approvedBy nor rejectedBy. *)
C9_ParallelPolicy ==
    [][(ApprovalAccepted /\ RuleTypeIs("parallel")) =>
          LET approvers == ResolveApprovers(rules, expense)
              after == expense'
              allRequired == \A i \in DOMAIN approvers :
                                approvers[i].isRequired
                                   => approvers[i].user \in Range(after.approvedBy)
          IN /\ (after.status = "approved") <=> allRequired
             /\ ~allRequired => WaitsForNextUndecided(after, approvers)]_vars

(* a parallel rule approved by its required approver while the optional
   approver has not decided *)
C9_Witness ==
    /\ RuleTypeIs("parallel")
    /\ response.op = "decide"
    /\ expense.status = "approved"
    /\ expense.totalApprovers = 2
    /\ Len(expense.approvedBy) = 1
    /\ \E i \in DOMAIN MatchedRules[1].approvers :
          ~MatchedRules[1].approvers[i].isRequired

(* a parallel rule with two required approvers waiting for the second *)
C9_WitnessPending ==
    /\ RuleTypeIs("parallel")
    /\ response.op = "decide"
    /\ expense.status = "pending"
    /\ Len(expense.approvedBy) = 1

(* C10: when no rule matches and the submitter's manager is flagged as an
   approver, creation leaves the expense pending with totalApprovers = 1,
   approvalStep = 1 and the manager as currentApprover. *)
C10_DefaultManagerApproval ==
    [][( /\ response'.op = "create"
         /\ response'.code = 201
         /\ Len(FindRules(rules, expense'.amountInCompanyCurrency)) = 0
         /\ users[expense'.employee].manager # Null
         /\ users[users[expense'.employee].manager].isManagerApprover )
          => /\ expense'.status = "pending"
             /\ expense'.totalApprovers = 1
             /\ expense'.approvalStep = 1
             /\ expense'.currentApprover = users[expense'.employee].manager]_vars

----------------------------------------------------------------------------
(* Vocabulary of the properties on workflow initialization *)

(* this step is an accepted creation or an accepted edit, both of which end
   in determineApprovalWorkflow *)
ExpenseCreated ==
    /\ response'.op = "create"
    /\ response'.code = 201

ExpenseEdited ==
    /\ response'.op = "update"
    /\ response'.code = 200

(* the submitter has a manager who is flagged as approver *)
HasApprovingManager(u) ==
    IF users[u].manager = Null THEN FALSE
    ELSE users[users[u].manager].isManagerApprover

(* C11: when no active rule matches and the submitter has no manager, or a
   manager who is not flagged as approver, workflow initialization (on
   creation and on an edit) approves the expense at once: status approved,
   totalApprovers 0, approvalStep 0 and finalApprovalDate set. *)
C11_AutoApproveWithoutManager ==
    [][( /\ ExpenseCreated \/ ExpenseEdited
         /\ Len(FindRules(rules, expense'.amountInCompanyCurrency)) = 0
         /\ ~HasApprovingManager(expense'.employee) )
          => /\ expense'.status = "approved"
             /\ expense'.totalApprovers = 0
             /\ expense'.approvalStep = 0
             /\ expense'.finalApprovalDate # Null]_vars

(* an expense of m1, whose manager m3 is not an approver, created below the
   threshold of the configured rule and approved at once *)
C11_Witness ==
    /\ Stored
    /\ response.op = "create"
    /\ response.code = 201
    /\ expense.employee = "m1"
    /\ Len(rules) = 1
    /\ Len(MatchedRules) = 0
    /\ expense.status = "approved"
    /\ expense.totalApprovers = 0
    /\ expense.approvalStep = 0
    /\ expense.finalApprovalDate = Now

(* C12: an override by an administrator with action rejected (approved) on a
   pending expense, after any number of decisions and under every approval
   type, is answered 200 and leaves status rejected (approved),
   currentApprover null and finalApprovalDate set, whatever the rule says. *)
C12_OverrideWins ==
    [][\A u \in Users, req \in OverrideRequests :
          ( /\ response'.op = "override"
            /\ users[u].role = "admin"
            /\ Stored
            /\ expense.status = "pending"
            /\ OverrideApproval(u, req[1], req[2]) )
          => /\ response'.code = 200
             /\ expense'.status = req[1]
             /\ expense'.currentApprover = Null
             /\ expense'.finalApprovalDate # Null
             /\ expense'.approvedBy = expense.approvedBy
             /\ expense'.rejectedBy = expense.rejectedBy]_vars

(* a hybrid rule of two approvers asking for 100% and naming no specific
   approver: one has approved, the expense was pending, and the override
   rejected it *)
C12_Witness ==
    /\ RuleTypeIs("hybrid")
    /\ MatchedRules[1].percentageRequired = 100
    /\ MatchedRules[1].specificApproverCanApprove = Null
    /\ response.op = "override"
    /\ response.code = 200
    /\ expense.totalApprovers = 2
    /\ Len(expense.approvedBy) = 1
    /\ Len(expense.approvalHistory) = 2
    /\ Last(expense.approvalHistory).override
    /\ expense.status = "rejected"
    /\ expense.currentApprover = Null
    /\ expense.finalApprovalDate = Now

(* an override that rejects a pending expense nobody has decided on *)
C12_WitnessNoDecision ==
    /\ RuleTypeIs("sequential")
    /\ response.op = "override"
    /\ expense.totalApprovers = 2
    /\ Len(expense.approvalHistory) = 1
    /\ Last(expense.approvalHistory).override
    /\ expense.approvedBy = <<>>
    /\ expense.status = "rejected"
    /\ expense.currentApprover = Null

(* C13: an override request from a user whose role is not admin (employee,
   manager, approving manager, the current approver included) is answered
   403 and leaves the expense unchanged: a step that is not such an answer
   is not an override request of any of these users. *)
C13_OverrideAdminOnly ==
    [][\A u \in Users, req \in OverrideRequests :
          ( /\ response'.op = "override"
            /\ users[u].role # "admin"
            /\ ~(response'.code = 403 /\ expense' = expense) )
          => ~OverrideApproval(u, req[1], req[2])]_vars

(* a pending expense whose current approver is a manager, after a refused
   override request *)
C13_Witness ==
    /\ Stored
    /\ response.op = "override"
    /\ response.code = 403
    /\ expense.status = "pending"
    /\ expense.currentApprover # Null
    /\ users[expense.currentApprover].role = "manager"

(* C14: once the status is approved or rejected, every decision request
   (PUT /approvals/:id), edit (PUT /expenses/:id) and delete
   (DELETE /expenses/:id) fails and leaves the stored expense as it is: no
   workflow field changes and the expense is not removed. *)
C14_TerminalAbsorbing ==
    [][( /\ Stored
         /\ Terminal(expense)
         /\ response'.op \in {"decide", "update", "delete"} )
          => /\ expense' = expense
             /\ response'.code >= 400]_vars

(* a rejected expense, which keeps its current approver, after a further
   decision request was refused as not pending *)
C14_Witness ==
    /\ Stored
    /\ expense.status = "rejected"
    /\ expense.currentApprover # Null
    /\ response.op = "decide"
    /\ response.code = 400

(* an approved expense after a refused delete request *)
C14_WitnessDelete ==
    /\ Stored
    /\ expense.status = "approved"
    /\ response.op = "delete"
    /\ response.code = 400

(* C15: when two decision requests load the same state of the expense (so
   both pass the checks against the same currentApprover) and both are
   saved, the stored expense is the result of exactly one of them: one more
   history entry, one more approvedBy or rejectedBy entry, one advance. *)
C15_OneEffectiveDecision ==
    \A r1, r2 \in Requests :
        ( /\ r1 # r2
          /\ inflight[r1].pc = "saved"
          /\ inflight[r2].pc = "saved"
          /\ inflight[r1].read = inflight[r2].read )
        => expense \in {inflight[r1].doc, inflight[r2].doc}

(* C16: when a lookup throws while processApprovalWorkflow re-evaluates an
   approval, the stored expense is left as it was before the request: no
   new approvalHistory entry, no new approvedBy entry, status,
   currentApprover and approvalStep unchanged. *)
C16_FailureLeavesExpense ==
    [][\A u \in Users :
          ( /\ response'.op = "decide"
            /\ ProcessApprovalLookup(u, "approved", "", "throws") )
          => expense' = expense]_vars

----------------------------------------------------------------------------
(* Vocabulary of the properties on rule resolution *)

(* positions of the rules the claim calls candidates for an amount *)
Candidates(rs, amount) ==
    {i \in DOMAIN rs :
        /\ rs[i].company = OwnCompany
        /\ rs[i].isActive
        /\ (~rs[i].hasThreshold \/ rs[i].amountThreshold <= amount)}

(* a has a higher threshold than b; an absent threshold is below every number *)
HigherThreshold(a, b) ==
    /\ a.hasThreshold
    /\ (~b.hasThreshold \/ a.amountThreshold > b.amountThreshold)

(* candidates with no candidate of higher priority and, among those of the
   same priority, none of higher threshold *)
BestCandidates(rs, amount) ==
    {i \in Candidates(rs, amount) :
        \A j \in Candidates(rs, amount) :
            /\ rs[j].priority <= rs[i].priority
            /\ rs[j].priority = rs[i].priority => ~HigherThreshold(rs[j], rs[i])}

(* C17: the rule the initializer and the decision processor use is an active
   rule of the company whose threshold is absent or at most the amount, with
   no such rule of higher priority and, among those of equal priority, none
   of higher threshold; with no such rule the default policy applies. *)
C17_RuleResolution ==
    [][(ExpenseCreated \/ ApprovalAccepted) =>
          LET amount == expense'.amountInCompanyCurrency
              best == BestCandidates(rules, amount)
          IN IF Candidates(rules, amount) = {}
             THEN /\ ExpenseCreated
                  /\ expense'.totalApprovers = Len(DefaultApprovers(expense'.employee))
                  /\ expense'.status = "approved"
             ELSE \E i \in best :
                     LET approvers == SortByStep(rules[i].approvers)
                     IN /\ expense'.totalApprovers = Len(approvers)
                        /\ IF ExpenseCreated
                           THEN /\ expense'.currentApprover = approvers[1].user
                                /\ expense'.status = "pending"
                           ELSE IF expense.approvalStep >= Len(approvers)
                           THEN expense'.status = "approved"
                           ELSE /\ expense'.status = "pending"
                                /\ expense'.currentApprover =
                                      approvers[expense.approvalStep + 1].user]_vars

(* two candidates of equal priority: the second one, of higher threshold and
   two approvers, is in use after the first approval *)
C17_Witness ==
    /\ Stored
    /\ Len(rules) = 2
    /\ Candidates(rules, expense.amountInCompanyCurrency) = {1, 2}
    /\ rules[1].priority = rules[2].priority
    /\ HigherThreshold(rules[2], rules[1])
    /\ response.op = "decide"
    /\ response.code = 200
    /\ expense.totalApprovers = 2
    /\ expense.approvalStep = 2
    /\ expense.status = "pending"
    /\ expense.currentApprover = rules[2].approvers[2].user

(* C18: after every accepted creation and every accepted edit for which the
   resolved approver list is not empty, totalApprovers is the length of the
   list, approvedBy, rejectedBy and approvalHistory are empty, approvalStep
   is 1 and currentApprover is the approver of the lowest step. *)
C18_WorkflowInitialized ==
    [][( /\ ExpenseCreated \/ ExpenseEdited
         /\ Len(ResolveApprovers(rules, expense')) > 0 )
          => LET found == FindRules(rules, expense'.amountInCompanyCurrency)
                 listed == IF Len(found) > 0 THEN found[1].approvers
                           ELSE DefaultApprovers(expense'.employee)
             IN /\ expense'.totalApprovers = Len(listed)
                /\ expense'.approvedBy = <<>>
                /\ expense'.rejectedBy = <<>>
                /\ expense'.approvalHistory = <<>>
                /\ expense'.approvalStep = 1
                /\ \E i \in DOMAIN listed :
                      /\ listed[i].user = expense'.currentApprover
                      /\ \A j \in DOMAIN listed : listed[i].step <= listed[j].step]_vars

(* an edited expense under a rule whose approvers were entered with
   descending steps: it waits at step 1 for the approver entered last *)
C18_Witness ==
    /\ Stored
    /\ response.op = "update"
    /\ response.code = 200
    /\ Len(MatchedRules) = 1
    /\ Len(MatchedRules[1].approvers) = 2
    /\ MatchedRules[1].approvers[1].step = 2
    /\ expense.currentApprover = MatchedRules[1].approvers[2].user
    /\ expense.approvalStep = 1
    /\ expense.totalApprovers = 2
    /\ expense.approvalHistory = <<>>
    /\ expense.status = "pending"

(* C19: whenever workflow initialization resolves an empty approver list, on
   creation and on an edit of a pending expense that had a currentApprover,
   the expense ends with status approved, finalApprovalDate set and
   currentApprover null. *)
C19_AutoApprovalClearsApprover ==
    [][( /\ ExpenseCreated \/ ExpenseEdited
         /\ Len(ResolveApprovers(rules, expense')) = 0 )
          => /\ expense'.status = "approved"
             /\ expense'.finalApprovalDate # Null
             /\ expense'.currentApprover = Null]_vars

(* C20: a decision request is accepted only if its sender can approve, the
   expense is pending and the sender is its currentApprover.  A request by
   any other user is answered 403, a request on an expense that is not
   pending (one whose currentApprover has been cleared included) is answered
   403 or 400, and in both cases the expense is unchanged. *)
C20_DecisionPreconditions ==
    [][\A u \in Users, req \in DecisionRequests :
          ( /\ response'.op = "decide"
            /\ Stored
            /\ ~( /\ canApprove(u)
                  /\ expense.status = "pending"
                  /\ expense.currentApprover = u )
            /\ ProcessApproval(u, req[1], req[2]) )
          => /\ expense' = expense
             /\ response'.code \in
                   (IF expense.currentApprover # u THEN {403} ELSE {403, 400})]_vars

(* C21: when no rate is obtained for the currency of the request, a creation
   stores no expense and an edit leaves the stored expense as it was (amount,
   currency, converted amount, rate and workflow fields); the request fails,
   and no stored expense in a foreign currency carries a rate other than the
   one the API gave. *)
C21_ConversionFailureFails ==
    [][/\ \A u \in Users, a \in Amounts :
            ( /\ response'.op \in {"create", "update"}
              /\ \/ CreateExpense(u, a, ForeignCurrency, "fail")
                 \/ UpdateExpense(u, a, ForeignCurrency, "fail") )
            => /\ expense' = expense
               /\ response'.code >= 400
       /\ (expense' # NoExpense /\ expense'.currency # CompanyCurrency)
             => expense'.exchangeRate = ApiRate]_vars

(* a pending expense after an edit to a foreign currency failed for want of
   a rate *)
C21_Witness ==
    /\ Stored
    /\ expense.status = "pending"
    /\ expense.currency = CompanyCurrency
    /\ response.op = "update"
    /\ response.code = 500

(* no expense after a creation in a foreign currency failed *)
C21_WitnessCreate ==
    /\ expense = NoExpense
    /\ response.op = "create"
    /\ response.code = 500

(* C22: every expense that GET /approvals/pending returns to a caller who may
   approve (admin or approving manager) has status pending and has that
   caller as its currentApprover. *)
C22_PendingListing ==
    (response.op = "list" /\ response.code = 200)
      => \A e \in response.expenses :
            /\ e.status = "pending"
            /\ e.currentApprover = response.user

(* C23: a registration sent when no user exists succeeds, creates a company,
   makes the new user an admin and records that user as the admin of the
   company; a registration sent when a user exists is refused and creates
   neither a user nor a company. *)
C23_FirstUserRegistration ==
    [][\A email \in Emails :
          (response'.op = "register" /\ Register(email))
            => IF accounts.users = {}
               THEN /\ response'.code = 201
                    /\ Cardinality(accounts'.users) = 1
                    /\ Cardinality(accounts'.companies) = 1
                    /\ \A u \in accounts'.users :
                          /\ u.email = email
                          /\ u.role = "admin"
                          /\ \A c \in accounts'.companies :
                                c.admin = u.email /\ u.company = c.name
               ELSE /\ response'.code >= 400
                    /\ accounts' = accounts]_vars

(* C24: under a specific_approver rule, once an approval leaves every
   approver of the list in approvedBy while the designated approver has not
   approved, the expense is terminal: approved if the share of approvals
   reaches the required percentage, otherwise rejected with the reason
   "Insufficient approvals". *)
C24_SpecificApproverExhaustion ==
    [][( /\ ApprovalAccepted
         /\ RuleTypeIs("specific_approver")
         /\ ~HasSpecificApproval(expense', MatchedRules[1].specificApproverCanApprove)
         /\ \A a \in Range(ResolveApprovers(rules, expense)) :
               a.user \in Range(expense'.approvedBy) )
        => /\ Terminal(expense')
           /\ IF PercentageReached(expense', NumOrElse(MatchedRules[1].percentageRequired, 100))
              THEN expense'.status = "approved"
              ELSE /\ expense'.status = "rejected"
                   /\ expense'.rejectionReason = "Insufficient approvals"]_vars

(* C25: under a parallel rule, when an approval leaves no approver who is in
   neither approvedBy nor rejectedBy while the required approvers have not
   all approved, the expense is rejected with the reason "Insufficient
   approvals", its final date is set and its currentApprover is cleared. *)
C25_ParallelExhaustion ==
    [][( /\ ApprovalAccepted
         /\ RuleTypeIs("parallel")
         /\ Len(RemainingApprovers(expense', ResolveApprovers(rules, expense))) = 0
         /\ ~RequiredApproved(expense', ResolveApprovers(rules, expense)) )
        => /\ expense'.status = "rejected"
           /\ expense'.rejectionReason = "Insufficient approvals"
           /\ expense'.finalApprovalDate = Now
           /\ expense'.currentApprover = Null]_vars

(* C26: while an expense resolved by a rule with distinct approvers is
   pending, its currentApprover is in neither approvedBy nor rejectedBy, and
   no user appears twice across approvedBy and rejectedBy. *)
C26_DecidedNeverReoffered ==
    (Stored /\ Len(MatchedRules) > 0 /\ expense.status = "pending")
      => LET decided == expense.approvedBy \o expense.rejectedBy
         IN  /\ expense.currentApprover \notin Range(decided)
             /\ \A i, j \in DOMAIN decided : decided[i] = decided[j] => i = j

(* C27: after any decisions and overrides (an override carrying any action
   value the route accepts), a rejected expense has a rejectionReason, and an
   accepted override leaves the status approved or rejected, the final date
   set and the currentApprover cleared. *)
C27_RejectionReasonTracksRejection ==
    [][/\ (expense' # NoExpense /\ expense'.status = "rejected")
            => expense'.rejectionReason \notin {Null, Undefined, ""}
       /\ (response'.op = "override" /\ response'.code = 200)
            => /\ expense'.status \in {"approved", "rejected"}
               /\ expense'.finalApprovalDate = Now
               /\ expense'.currentApprover = Null]_vars

(* C28: an expense resolved by a rule is terminal once it has taken as many
   accepted decisions as it has approvers (totalApprovers); no expense is
   still pending, and still taking approvals of its current approver, after
   that many decisions. *)
C28_ProgressWithinTotalApprovers ==
    ( /\ Stored
      /\ Len(MatchedRules) > 0
      /\ expense.totalApprovers >= 1
      /\ Len(expense.approvedBy) + Len(expense.rejectedBy) >= expense.totalApprovers )
      => Terminal(expense)

(* C29: an expense stored with status pending has a currentApprover, who is
   one of the approvers resolved for it, and totalApprovers is at least 1;
   also when a lookup of the initializer or of the decision processor fails. *)
C29_PendingHasApprover ==
    (Stored /\ expense.status = "pending")
      => /\ expense.currentApprover # Null
         /\ \E a \in Range(ResolveApprovers(rules, expense)) :
               a.user = expense.currentApprover
         /\ expense.totalApprovers >= 1

(* C30: every stored expense has an amount in company currency that is at
   most the maxExpenseAmount of the company, whatever creations and edits
   were made. *)
C30_CompanyExpenseLimit ==
    Stored => expense.amountInCompanyCurrency <= maxExpenseAmount

====
